---------------------------- MODULE Spec2Model ----------------------------
(***************************************************************************)
(* S-HTCP congestion control (ns3::TcpShtcp, src/tcp-shtcp.cc).            *)
(*                                                                         *)
(* One TcpShtcp object, the TcpSocketState fields it reads and writes, and *)
(* the simulator clock.  The handlers PktsAcked, GetSsThresh and           *)
(* CongestionAvoidance are one action each.                                *)
(*                                                                         *)
(* Numbers.  The doubles of the source (m_alpha, m_beta, m_defaultBackoff, *)
(* m_throughputRatio and the temporaries in seconds) are fixed-point       *)
(* integers with One units per 1.0; a product of two of them is divided by *)
(* One and a conversion to uint32_t drops the fraction.  ns3::Time values  *)
(* are integer ticks, TicksPerSec of them per second.  TLC's integers are  *)
(* 32 bits wide, so Time::Max(), Time::Min() and the saturated uint32_t    *)
(* are stand-ins far outside the values the bounded model measures.        *)
(***************************************************************************)
EXTENDS Integers, Naturals, FiniteSets, Sequences, TLC

\* ------------------------------------------------------------------ numbers

\* fixed-point resolution of a double: One represents 1.0
One == 1000

\* ticks of ns3::Time in one second (Time::GetSeconds divides by it)
TicksPerSec == 2

\* Time::Max () and Time::Min (), the sentinels of m_minRtt and m_maxRtt
TimeMax == 100000
TimeMin == -100000

\* the base of the pow () calls, 2.71828
EulerApprox == 2718

\* largest uint32_t: what a saturating conversion of +inf produces
SaturatedU32 == 2000000

\* ------------------------------------------------------------------- bounds

MaxTime == 4
\* latest time at which the controller is constructed
MaxStartTime == 1
MaxSegmentsAcked == 1
MaxDataSent == 2000
\* events given to one of the two objects only, after Fork
MaxSolo == 1

\* ------------------------------------------------------------------- inputs

\* DefaultBackoff: MakeDoubleChecker<double> (0,1) admits the closed interval
DefaultBackoffVals == {0, One \div 2, One}
\* ThroughputRatio: default 0.2
ThroughputRatioVals == {One \div 5}
\* DeltaL: default Seconds (1)
DeltaLVals == {TicksPerSec}
\* RTT samples handed to PktsAcked, in ticks (positive)
RttVals == {1, 2, 3}
SegmentSizeVals == {1000}
\* tcb->m_segmentSize in CongestionAvoidance: also the first size whose
\* square passes 32 bits
SquaredSegmentSizeVals == SegmentSizeVals \cup {65536}
BytesInFlightVals == {3000, 30000}
CongStates == {"CA_OPEN", "CA_RECOVERY"}
CwndVals == {10000}
\* RTT samples of the runs with a forked object
ForkRttVals == {1, 3}

VARIABLES
    m_alpha, m_beta, m_defaultBackoff, m_throughputRatio, m_delta, m_deltaL,
    m_lastCon, m_minRtt, m_maxRtt, m_throughput, m_lastThroughput, m_dataSent,
    now,        \* Simulator::Now ()
    call,       \* the handler that ran last, its arguments and its result
    samples,    \* the RTT samples PktsAcked received in the current epoch
    fork        \* the object Fork returned, once it has been called

vars == << m_alpha, m_beta, m_defaultBackoff, m_throughputRatio, m_delta,
           m_deltaL, m_lastCon, m_minRtt, m_maxRtt, m_throughput,
           m_lastThroughput, m_dataSent, now, call, samples, fork >>

config == << m_defaultBackoff, m_throughputRatio, m_deltaL >>

algorithmState == << m_alpha, m_beta, m_delta, m_lastCon, m_minRtt, m_maxRtt,
                     m_throughput, m_lastThroughput, m_dataSent >>

\* --------------------------------------------------------------- arithmetic

Max(a, b) == IF a >= b THEN a ELSE b

\* product of two doubles
Mul(a, b) == (a * b) \div One

\* Time::GetSeconds (): ticks to a double number of seconds
GetSeconds(t) == (t * One) \div TicksPerSec

RECURSIVE PowInt(_)
\* 2.71828 to an integer power n; below the resolution the result is 0
PowInt(n) ==
    IF n = 0 THEN One
    ELSE IF n > 0 THEN Mul(EulerApprox, PowInt(n - 1))
    ELSE IF n < -8 THEN 0
    ELSE (PowInt(n + 1) * One) \div EulerApprox

\* 2.71828 to a power f in [0, 1): the exponential series to the fifth term
PowFrac(f) ==
    LET t1 == f
        t2 == Mul(t1, f) \div 2
        t3 == Mul(t2, f) \div 3
        t4 == Mul(t3, f) \div 4
        t5 == Mul(t4, f) \div 5
    IN  One + t1 + t2 + t3 + t4 + t5

\* pow (2.71828, x)
Pow(x) ==
    LET n == x \div One
        f == x - n * One
    IN  Mul(PowInt(n), PowFrac(f))


\* ------------------------------------------------------------- UpdateAlpha

\* m_delta = (Simulator::Now () - m_lastCon)
Delta(nowT, lastCon) == nowT - lastCon

\* faulty variant: the reference window tested with < instead of <=
BaseAlphaStrict(delta, deltaL, minRtt) ==
    IF delta < deltaL
    THEN One
    ELSE LET diffSec == GetSeconds(delta - deltaL)
         IN  Mul(Pow((14 * GetSeconds(delta) - 5 * GetSeconds(minRtt)) \div 350),
                 One + 10 * diffSec + Mul(One \div 4, Mul(diffSec, diffSec)))

\* the value m_alpha takes in the if / else on m_delta <= m_deltaL
BaseAlpha(delta, deltaL, minRtt) ==
    IF delta <= deltaL
    THEN One
    ELSE LET diffSec == GetSeconds(delta - deltaL)
         IN  Mul(Pow((14 * GetSeconds(delta) - 5 * GetSeconds(minRtt)) \div 350),
                 One + 10 * diffSec + Mul(One \div 4, Mul(diffSec, diffSec)))

\* m_alpha = (2 * (1 - m_beta) * m_alpha)
CoupleAlpha(beta, a) == Mul(2 * (One - beta), a)

\* faulty variant: the final clamp is left out
ClampAlphaMissing(a) == a

\* if (m_alpha < 1) m_alpha = 1
ClampAlpha(a) == IF a < One THEN One ELSE a

\* the m_alpha UpdateAlpha leaves, given the m_delta it has just stored
UpdateAlpha(delta, deltaL, minRtt, beta) ==
    ClampAlpha(CoupleAlpha(beta, BaseAlpha(delta, deltaL, minRtt)))

\* -------------------------------------------------------------- UpdateBeta

\* diff / m_lastThroughput <= m_throughputRatio: the quotient of the two
\* uint32_t is an integer quotient, converted to double for the comparison
RatioWithin(diff, lastThroughput, ratio) ==
    (diff \div lastThroughput) * One <= ratio

\* pow (2.71828, -m_delta.GetSeconds ()/25) * (m_minRtt / m_maxRtt)
OverrideBeta(delta, minRtt, maxRtt) ==
    Mul(Pow((-GetSeconds(delta)) \div 25), (minRtt * One) \div maxRtt)

\* whether UpdateBeta takes the inner branch
OverrideFires(throughput, lastThroughput, ratio) ==
    /\ throughput > lastThroughput
    /\ lastThroughput > 0
    /\ RatioWithin(throughput - lastThroughput, lastThroughput, ratio)

\* the m_beta UpdateBeta leaves
UpdateBeta(defaultBackoff, throughput, lastThroughput, ratio, delta, minRtt, maxRtt) ==
    IF OverrideFires(throughput, lastThroughput, ratio)
    THEN OverrideBeta(delta, minRtt, maxRtt)
    ELSE defaultBackoff

\* ------------------------------------------------------------- GetSsThresh

\* faulty variant: the floor of two segments is left out
SsThreshNoFloor(segmentSize, bytesInFlight, beta) == Mul(bytesInFlight, beta)

\* std::max (2 * segmentSize, static_cast<uint32_t> (bytesInFlight * m_beta))
SsThresh(segmentSize, bytesInFlight, beta) ==
    Max(2 * segmentSize, Mul(bytesInFlight, beta))

\* faulty variant: m_throughput is cleared before it is saved
ResetEpochSwapped(throughput) ==
    [minRtt |-> TimeMax, maxRtt |-> TimeMin, lastThroughput |-> 0,
     throughput |-> 0, dataSent |-> 0]

\* faulty variant: m_throughput is not cleared
ResetEpochKeepsThroughput(throughput) ==
    [minRtt |-> TimeMax, maxRtt |-> TimeMin, lastThroughput |-> throughput,
     throughput |-> throughput, dataSent |-> 0]

\* the epoch fields after the five assignments that end GetSsThresh
ResetEpoch(throughput) ==
    [minRtt |-> TimeMax, maxRtt |-> TimeMin, lastThroughput |-> throughput,
     throughput |-> 0, dataSent |-> 0]

\* --------------------------------------------------------------- PktsAcked

\* faulty variant: the congestion state is not tested
NewDataSentAnyState(dataSent, segmentsAcked, segmentSize, congState) ==
    dataSent + segmentsAcked * segmentSize

\* m_dataSent after the CA_OPEN test
NewDataSent(dataSent, segmentsAcked, segmentSize, congState) ==
    IF congState = "CA_OPEN"
    THEN dataSent + segmentsAcked * segmentSize
    ELSE dataSent

\* Simulator::Now ().GetSeconds () - m_lastCon.GetSeconds ()
ElapsedSeconds(nowT, lastCon) == GetSeconds(nowT) - GetSeconds(lastCon)

\* The uint32_t a conversion of +inf or NaN may produce: the conversion is
\* undefined; a truncating build yields 0 and a saturating one the maximum.
UndefinedU32 == {0, SaturatedU32}

\* the values static_cast<uint32_t> (m_dataSent / elapsed) may produce
Throughput(dataSent, elapsed) ==
    IF elapsed > 0
    THEN {(dataSent * One) \div elapsed}
    ELSE UndefinedU32

\* if (rtt < m_minRtt) m_minRtt = rtt
NewMinRtt(rtt, minRtt) == IF rtt < minRtt THEN rtt ELSE minRtt

\* faulty variant: the comparison of the minimum copied to the maximum
NewMaxRttCopied(rtt, maxRtt) == IF rtt < maxRtt THEN rtt ELSE maxRtt

\* if (rtt > m_maxRtt) m_maxRtt = rtt
NewMaxRtt(rtt, maxRtt) == IF rtt > maxRtt THEN rtt ELSE maxRtt

\* ----------------------------------------------------- CongestionAvoidance

\* A uint32_t is held as its two 16-bit halves where a result may pass the
\* 31 bits of the checker's integers: Half is 2^16, Byte is 2^8.
Half == 65536

Byte == 256

\* the 32-bit product of two 16-bit halves, by 8-bit digits
MulHalf(x, y) ==
    LET x1 == x \div Byte
        x0 == x % Byte
        y1 == y \div Byte
        y0 == y % Byte
        mid == x1 * y0 + x0 * y1
        low == (mid % Byte) * Byte + x0 * y0
    IN  [hi |-> x1 * y1 + mid \div Byte + low \div Half, lo |-> low % Half]

\* a * b in uint32_t: the product modulo 2^32
MulU32(a, b) ==
    LET ah == a \div Half
        al == a % Half
        bh == b \div Half
        bl == b % Half
        p == MulHalf(al, bl)
        cross == (MulHalf(ah, bl).lo + MulHalf(al, bh).lo) % Half
    IN  [hi |-> (p.hi + cross) % Half, lo |-> p.lo]

\* the number a uint32_t holds
U32Value(u) == u.hi * Half + u.lo

\* adder, after std::max (1.0, adder): the square of the segment size is a
\* uint32_t product, the rest is double arithmetic
Adder(segmentSize, w, alpha) ==
    Max(One, (U32Value(MulU32(segmentSize, segmentSize)) * One + w * alpha) \div w + alpha)

\* faulty variant: the test of segmentsAcked is left out
NewCwndUnguarded(w, segmentSize, segmentsAcked, alpha) ==
    w + Adder(segmentSize, w, alpha) \div One

\* tcb->m_cWnd after the call (windows stay far below 2^32: the += does
\* not wrap)
NewCwnd(w, segmentSize, segmentsAcked, alpha) ==
    IF segmentsAcked > 0
    THEN w + Adder(segmentSize, w, alpha) \div One
    ELSE w

\* ------------------------------------------------------------------ actions

\* A call: the handler, the arguments it was given (the fields of tcb it
\* reads among them), and in ret what it hands back: the slow-start threshold
\* of GetSsThresh, tcb->m_cWnd after CongestionAvoidance.
Call(op, segmentsAcked, segmentSize, congState, rtt, bytesInFlight, w, ret) ==
    [op |-> op, segmentsAcked |-> segmentsAcked, segmentSize |-> segmentSize,
     congState |-> congState, rtt |-> rtt, bytesInFlight |-> bytesInFlight,
     cWnd |-> w, ret |-> ret]

NoArgs(op) == Call(op, 0, 0, "CA_OPEN", 0, 0, 0, 0)

\* the TcpShtcp object itself, as the record of its fields
This ==
    [alpha |-> m_alpha, beta |-> m_beta, defaultBackoff |-> m_defaultBackoff,
     throughputRatio |-> m_throughputRatio, delta |-> m_delta, deltaL |-> m_deltaL,
     lastCon |-> m_lastCon, minRtt |-> m_minRtt, maxRtt |-> m_maxRtt,
     throughput |-> m_throughput, lastThroughput |-> m_lastThroughput,
     dataSent |-> m_dataSent]

\* faulty variant: the accumulator is not copied
TcpShtcpCopyNoDataSent(sock) ==
    [alpha |-> sock.alpha, beta |-> sock.beta, defaultBackoff |-> sock.defaultBackoff,
     throughputRatio |-> sock.throughputRatio, delta |-> sock.delta,
     deltaL |-> sock.deltaL, lastCon |-> sock.lastCon, minRtt |-> sock.minRtt,
     maxRtt |-> sock.maxRtt, throughput |-> sock.throughput,
     lastThroughput |-> sock.lastThroughput, dataSent |-> 0]

\* TcpShtcp::TcpShtcp (const TcpShtcp& sock): the object it constructs
TcpShtcpCopy(sock) ==
    [alpha |-> sock.alpha, beta |-> sock.beta, defaultBackoff |-> sock.defaultBackoff,
     throughputRatio |-> sock.throughputRatio, delta |-> sock.delta,
     deltaL |-> sock.deltaL, lastCon |-> sock.lastCon, minRtt |-> sock.minRtt,
     maxRtt |-> sock.maxRtt, throughput |-> sock.throughput,
     lastThroughput |-> sock.lastThroughput, dataSent |-> sock.dataSent]

\* no object forked yet; last names the objects the latest event went to
NoFork ==
    [made |-> FALSE, solo |-> 0, last |-> "none", ret |-> 0,
     obj |-> [alpha |-> 0, beta |-> 0, defaultBackoff |-> 0, throughputRatio |-> 0,
              delta |-> 0, deltaL |-> 0, lastCon |-> 0, minRtt |-> 0, maxRtt |-> 0,
              throughput |-> 0, lastThroughput |-> 0, dataSent |-> 0]]

\* TcpShtcp::TcpShtcp (void), run at any time up to MaxStartTime, with the
\* attributes set from their checkers' ranges
Init ==
    /\ m_alpha = 0
    /\ m_beta = 0
    /\ m_defaultBackoff \in DefaultBackoffVals
    /\ m_throughputRatio \in ThroughputRatioVals
    /\ m_delta = 0
    /\ m_deltaL \in DeltaLVals
    /\ m_lastCon = 0
    /\ m_minRtt = TimeMax
    /\ m_maxRtt = TimeMin
    /\ m_throughput = 0
    /\ m_lastThroughput = 0
    /\ m_dataSent = 0
    /\ now \in 0..MaxStartTime
    /\ call = NoArgs("TcpShtcp")
    /\ samples = {}
    /\ fork = NoFork

\* the simulator clock advances between two events
Tick ==
    /\ now < MaxTime
    /\ now' = now + 1
    /\ call' = NoArgs("Tick")
    /\ UNCHANGED << algorithmState, config, samples >>

\* faulty variant: UpdateBeta is called on every acknowledgment too
PktsAckedUpdatesBeta(segmentsAcked, segmentSize, congState, rtt) ==
    LET dataSent == NewDataSent(m_dataSent, segmentsAcked, segmentSize, congState)
        delta == Delta(now, m_lastCon)
        beta == UpdateBeta(m_defaultBackoff, m_throughput, m_lastThroughput,
                           m_throughputRatio, m_delta, m_minRtt, m_maxRtt)
    IN  /\ dataSent <= MaxDataSent
        /\ m_dataSent' = dataSent
        /\ m_throughput' \in Throughput(dataSent, ElapsedSeconds(now, m_lastCon))
        /\ m_beta' = beta
        /\ m_delta' = delta
        /\ m_alpha' = UpdateAlpha(delta, m_deltaL, m_minRtt, beta)
        /\ m_minRtt' = NewMinRtt(rtt, m_minRtt)
        /\ m_maxRtt' = NewMaxRtt(rtt, m_maxRtt)
        /\ samples' = samples \cup {rtt}
        /\ call' = Call("PktsAcked", segmentsAcked, segmentSize, congState, rtt, 0, 0, 0)
        /\ UNCHANGED << m_lastCon, m_lastThroughput, config, now >>

PktsAcked(segmentsAcked, segmentSize, congState, rtt) ==
    LET dataSent == NewDataSent(m_dataSent, segmentsAcked, segmentSize, congState)
        delta == Delta(now, m_lastCon)
    IN  /\ dataSent <= MaxDataSent
        /\ m_dataSent' = dataSent
        /\ m_throughput' \in Throughput(dataSent, ElapsedSeconds(now, m_lastCon))
        /\ m_delta' = delta
        /\ m_alpha' = UpdateAlpha(delta, m_deltaL, m_minRtt, m_beta)
        /\ m_minRtt' = NewMinRtt(rtt, m_minRtt)
        /\ m_maxRtt' = NewMaxRtt(rtt, m_maxRtt)
        /\ samples' = samples \cup {rtt}
        /\ call' = Call("PktsAcked", segmentsAcked, segmentSize, congState, rtt, 0, 0, 0)
        /\ UNCHANGED << m_beta, m_lastCon, m_lastThroughput, config, now >>

\* faulty variant: UpdateAlpha runs first, before m_lastCon is set and
\* before UpdateBeta
GetSsThreshAlphaFirst(segmentSize, bytesInFlight) ==
    LET delta == Delta(now, m_lastCon)
        beta == UpdateBeta(m_defaultBackoff, m_throughput, m_lastThroughput,
                           m_throughputRatio, delta, m_minRtt, m_maxRtt)
        reset == ResetEpoch(m_throughput)
    IN  /\ m_delta' = delta
        /\ m_alpha' = UpdateAlpha(delta, m_deltaL, m_minRtt, m_beta)
        /\ m_lastCon' = now
        /\ m_beta' = beta
        /\ m_minRtt' = reset.minRtt
        /\ m_maxRtt' = reset.maxRtt
        /\ m_lastThroughput' = reset.lastThroughput
        /\ m_throughput' = reset.throughput
        /\ m_dataSent' = reset.dataSent
        /\ samples' = {}
        /\ call' = Call("GetSsThresh", 0, segmentSize, "CA_OPEN", 0, bytesInFlight,
                        0, SsThresh(segmentSize, bytesInFlight, beta))
        /\ UNCHANGED << config, now >>

\* faulty variant: m_delta is brought up to the time of the congestion event
\* before UpdateBeta reads it
GetSsThreshFreshDelta(segmentSize, bytesInFlight) ==
    LET lastCon == now
        beta == UpdateBeta(m_defaultBackoff, m_throughput, m_lastThroughput,
                           m_throughputRatio, Delta(now, m_lastCon), m_minRtt, m_maxRtt)
        delta == Delta(now, lastCon)
        reset == ResetEpoch(m_throughput)
    IN  /\ m_lastCon' = lastCon
        /\ m_beta' = beta
        /\ m_delta' = delta
        /\ m_alpha' = UpdateAlpha(delta, m_deltaL, m_minRtt, beta)
        /\ m_minRtt' = reset.minRtt
        /\ m_maxRtt' = reset.maxRtt
        /\ m_lastThroughput' = reset.lastThroughput
        /\ m_throughput' = reset.throughput
        /\ m_dataSent' = reset.dataSent
        /\ samples' = {}
        /\ call' = Call("GetSsThresh", 0, segmentSize, "CA_OPEN", 0, bytesInFlight,
                        0, SsThresh(segmentSize, bytesInFlight, beta))
        /\ UNCHANGED << config, now >>

GetSsThresh(segmentSize, bytesInFlight) ==
    LET lastCon == now
        beta == UpdateBeta(m_defaultBackoff, m_throughput, m_lastThroughput,
                           m_throughputRatio, m_delta, m_minRtt, m_maxRtt)
        delta == Delta(now, lastCon)
        reset == ResetEpoch(m_throughput)
    IN  /\ m_lastCon' = lastCon
        /\ m_beta' = beta
        /\ m_delta' = delta
        /\ m_alpha' = UpdateAlpha(delta, m_deltaL, m_minRtt, beta)
        /\ m_minRtt' = reset.minRtt
        /\ m_maxRtt' = reset.maxRtt
        /\ m_lastThroughput' = reset.lastThroughput
        /\ m_throughput' = reset.throughput
        /\ m_dataSent' = reset.dataSent
        /\ samples' = {}
        /\ call' = Call("GetSsThresh", 0, segmentSize, "CA_OPEN", 0, bytesInFlight,
                        0, SsThresh(segmentSize, bytesInFlight, beta))
        /\ UNCHANGED << config, now >>

CongestionAvoidance(w, segmentsAcked, segmentSize) ==
    /\ call' = Call("CongestionAvoidance", segmentsAcked, segmentSize, "CA_OPEN", 0, 0,
                    w, NewCwnd(w, segmentSize, segmentsAcked, m_alpha))
    /\ UNCHANGED << algorithmState, config, now, samples >>

\* one controller, never forked
Next ==
    \/ Tick /\ UNCHANGED fork
    \/ \E a \in 0..MaxSegmentsAcked, s \in SegmentSizeVals, c \in CongStates, r \in RttVals :
          PktsAcked(a, s, c, r) /\ UNCHANGED fork
    \/ \E s \in SegmentSizeVals, b \in BytesInFlightVals :
          GetSsThresh(s, b) /\ UNCHANGED fork
    \/ \E w \in CwndVals, a \in 0..MaxSegmentsAcked, s \in SquaredSegmentSizeVals :
          CongestionAvoidance(w, a, s) /\ UNCHANGED fork

Spec == Init /\ [][Next]_vars

\* ------------------------------------------------------------------- Fork

\* PktsAcked run on the object o: the objects it may leave
AckedObjects(o, nowT, segmentsAcked, segmentSize, congState, rtt) ==
    LET dataSent == NewDataSent(o.dataSent, segmentsAcked, segmentSize, congState)
        delta == Delta(nowT, o.lastCon)
    IN  { [o EXCEPT !.dataSent = dataSent,
                    !.throughput = t,
                    !.delta = delta,
                    !.alpha = UpdateAlpha(delta, o.deltaL, o.minRtt, o.beta),
                    !.minRtt = NewMinRtt(rtt, o.minRtt),
                    !.maxRtt = NewMaxRtt(rtt, o.maxRtt)] :
          t \in Throughput(dataSent, ElapsedSeconds(nowT, o.lastCon)) }

\* GetSsThresh run on the object o: the object it leaves
SsThreshObject(o, nowT) ==
    LET lastCon == nowT
        beta == UpdateBeta(o.defaultBackoff, o.throughput, o.lastThroughput,
                           o.throughputRatio, o.delta, o.minRtt, o.maxRtt)
        delta == Delta(nowT, lastCon)
        reset == ResetEpoch(o.throughput)
    IN  [o EXCEPT !.lastCon = lastCon,
                  !.beta = beta,
                  !.delta = delta,
                  !.alpha = UpdateAlpha(delta, o.deltaL, o.minRtt, beta),
                  !.minRtt = reset.minRtt,
                  !.maxRtt = reset.maxRtt,
                  !.lastThroughput = reset.lastThroughput,
                  !.throughput = reset.throughput,
                  !.dataSent = reset.dataSent]

\* TcpShtcp::Fork: CopyObject<TcpShtcp> (this)
Fork ==
    /\ ~fork.made
    /\ fork' = [made |-> TRUE, solo |-> 0, last |-> "Fork", ret |-> 0,
                obj |-> TcpShtcpCopy(This)]
    /\ call' = NoArgs("Fork")
    /\ UNCHANGED << algorithmState, config, now, samples >>

\* an event given to the original alone: before Fork, or one of the MaxSolo
\* events after it that only one object receives
OriginalOnly ==
    IF fork.made
    THEN /\ fork.solo < MaxSolo
         /\ fork' = [fork EXCEPT !.solo = @ + 1, !.last = "original"]
    ELSE UNCHANGED fork

\* the same PktsAcked given to both objects at the same time; a conversion
\* that is undefined for both yields the same number in both
BothPktsAcked(segmentsAcked, segmentSize, congState, rtt) ==
    /\ fork.made
    /\ PktsAcked(segmentsAcked, segmentSize, congState, rtt)
    /\ \E o \in AckedObjects(fork.obj, now, segmentsAcked, segmentSize, congState, rtt) :
          /\ o.dataSent <= MaxDataSent
          /\ (ElapsedSeconds(now, fork.obj.lastCon) <= 0 /\ ElapsedSeconds(now, m_lastCon) <= 0)
                => o.throughput = m_throughput'
          /\ fork' = [fork EXCEPT !.obj = o, !.last = "both"]

\* the same GetSsThresh given to both objects at the same time
BothGetSsThresh(segmentSize, bytesInFlight) ==
    /\ fork.made
    /\ GetSsThresh(segmentSize, bytesInFlight)
    /\ LET o == SsThreshObject(fork.obj, now)
       IN  fork' = [fork EXCEPT !.obj = o, !.last = "both",
                                !.ret = SsThresh(segmentSize, bytesInFlight, o.beta)]

\* PktsAcked given to the forked object alone
ForkPktsAcked(segmentsAcked, segmentSize, congState, rtt) ==
    /\ fork.made
    /\ fork.solo < MaxSolo
    /\ \E o \in AckedObjects(fork.obj, now, segmentsAcked, segmentSize, congState, rtt) :
          /\ o.dataSent <= MaxDataSent
          /\ fork' = [fork EXCEPT !.obj = o, !.solo = @ + 1, !.last = "clone"]
    /\ call' = Call("Fork.PktsAcked", segmentsAcked, segmentSize, congState, rtt, 0, 0, 0)
    /\ UNCHANGED << algorithmState, config, now, samples >>

\* GetSsThresh given to the forked object alone
ForkGetSsThresh(segmentSize, bytesInFlight) ==
    /\ fork.made
    /\ fork.solo < MaxSolo
    /\ LET o == SsThreshObject(fork.obj, now)
       IN  /\ fork' = [fork EXCEPT !.obj = o, !.solo = @ + 1, !.last = "clone",
                                   !.ret = SsThresh(segmentSize, bytesInFlight, o.beta)]
           /\ call' = Call("Fork.GetSsThresh", 0, segmentSize, "CA_OPEN", 0, bytesInFlight,
                           0, SsThresh(segmentSize, bytesInFlight, o.beta))
    /\ UNCHANGED << algorithmState, config, now, samples >>

\* a controller with the default attributes, constructed at time 0
InitFork ==
    /\ Init
    /\ m_defaultBackoff = One \div 2
    /\ now = 0

\* one controller and the object it forks
NextFork ==
    \/ Tick /\ UNCHANGED fork
    \/ \E s \in SegmentSizeVals, r \in ForkRttVals :
          PktsAcked(1, s, "CA_OPEN", r) /\ OriginalOnly
    \/ \E s \in SegmentSizeVals : GetSsThresh(s, 30000) /\ OriginalOnly
    \/ Fork
    \/ \E s \in SegmentSizeVals, r \in ForkRttVals : BothPktsAcked(1, s, "CA_OPEN", r)
    \/ \E s \in SegmentSizeVals : BothGetSsThresh(s, 30000)
    \/ \E s \in SegmentSizeVals, r \in ForkRttVals : ForkPktsAcked(1, s, "CA_OPEN", r)
    \/ \E s \in SegmentSizeVals : ForkGetSsThresh(s, 30000)

SpecFork == InitFork /\ [][NextFork]_vars

\* ------------------------------------------------------------------- claims

Updated == call.op \in {"PktsAcked", "GetSsThresh"}

SetMin(S) == CHOOSE x \in S : \A y \in S : x <= y

SetMax(S) == CHOOSE x \in S : \A y \in S : x >= y

\* C1: the threshold GetSsThresh returns is the larger of two segments and
\* the whole part of bytesInFlight times the beta that call left in m_beta,
\* so it is never below two segments; with beta 0.5, 30000 bytes in flight
\* and 1000-byte segments it is 15000.
SsThreshIsFlooredProduct ==
    call.op = "GetSsThresh" =>
        /\ call.ret = Max(2 * call.segmentSize, (call.bytesInFlight * m_beta) \div One)
        /\ call.ret >= 2 * call.segmentSize
        /\ (m_beta = One \div 2 /\ call.bytesInFlight = 30000 /\ call.segmentSize = 1000)
              => call.ret = 15000

SsThreshScenarioReached ==
    /\ call.op = "GetSsThresh"
    /\ m_defaultBackoff = One \div 2
    /\ m_beta = m_defaultBackoff
    /\ call.bytesInFlight = 30000
    /\ call.segmentSize = 1000
    /\ call.ret = 15000

BetaInUnitInterval ==
    /\ m_beta > 0
    /\ m_beta <= One
    /\ (m_lastCon = 0 /\ m_lastThroughput = 0 /\ call.op = "TcpShtcp")
          => m_beta = m_defaultBackoff

\* C4: a GetSsThresh step leaves m_minRtt = Time::Max (), m_maxRtt =
\* Time::Min (), m_lastThroughput = the m_throughput before the step,
\* m_throughput = 0, m_dataSent = 0 and m_lastCon = the time of the call; a
\* PktsAcked step from the two sentinels sets both to its sample.
EpochReset ==
    [][ /\ call'.op = "GetSsThresh" =>
            /\ m_minRtt' = TimeMax
            /\ m_maxRtt' = TimeMin
            /\ m_lastThroughput' = m_throughput
            /\ m_throughput' = 0
            /\ m_dataSent' = 0
            /\ m_lastCon' = now
            /\ now' = now
        /\ (call'.op = "PktsAcked" /\ m_minRtt = TimeMax /\ m_maxRtt = TimeMin) =>
            /\ m_minRtt' = call'.rtt
            /\ m_maxRtt' = call'.rtt
      ]_vars

EpochResetReached ==
    /\ call.op = "GetSsThresh"
    /\ m_lastThroughput > 0
    /\ m_lastCon > 0
    /\ m_minRtt = TimeMax
    /\ m_maxRtt = TimeMin

\* C5: once PktsAcked has run in the current epoch, m_minRtt <= m_maxRtt and
\* the two are the smallest and the largest sample of the epoch.
RttExtremes ==
    samples # {} =>
        /\ m_minRtt <= m_maxRtt
        /\ m_minRtt = SetMin(samples)
        /\ m_maxRtt = SetMax(samples)

RttExtremesReached ==
    /\ Cardinality(samples) = 3
    /\ call.op = "PktsAcked"
    /\ call.rtt # m_minRtt
    /\ call.rtt # m_maxRtt

\* C6: a PktsAcked step with no time elapsed since m_lastCon leaves
\* m_throughput as it was; any other sets it to m_dataSent over the elapsed
\* seconds.
ThroughputGuarded ==
    [][ call'.op = "PktsAcked" =>
            IF ElapsedSeconds(now, m_lastCon) <= 0
            THEN m_throughput' = m_throughput
            ELSE m_throughput' = (m_dataSent' * One) \div ElapsedSeconds(now, m_lastCon)
      ]_vars

\* C7: GetSsThresh leaves the override value in m_beta exactly when
\* m_throughput > m_lastThroughput > 0 and the real-valued relative gain is
\* at most m_throughputRatio, and m_defaultBackoff otherwise.
OverrideExactlyWithinRatio ==
    [][ call'.op = "GetSsThresh" =>
            m_beta' = IF /\ m_throughput > m_lastThroughput
                         /\ m_lastThroughput > 0
                         /\ (m_throughput - m_lastThroughput) * One
                               <= m_throughputRatio * m_lastThroughput
                      THEN OverrideBeta(m_delta, m_minRtt, m_maxRtt)
                      ELSE m_defaultBackoff
      ]_vars

\* C8: right after UpdateAlpha has run with m_delta <= m_deltaL, m_alpha is
\* max (1, 2 (1 - m_beta)).
AlphaInReferenceWindow ==
    (Updated /\ m_delta <= m_deltaL) => m_alpha = Max(One, 2 * (One - m_beta))

\* at the edge of the reference window, after RTT samples, alpha above 1
AlphaInReferenceWindowReached ==
    /\ call.op = "PktsAcked"
    /\ m_delta = m_deltaL
    /\ Cardinality(samples) >= 2
    /\ m_alpha = 2 * One

\* C9: a PktsAcked step adds segmentsAcked * segmentSize to m_dataSent in
\* state CA_OPEN and leaves m_dataSent alone in any other state.
DataSentCountsOpenOnly ==
    [][ call'.op = "PktsAcked" =>
            m_dataSent' = IF call'.congState = "CA_OPEN"
                          THEN m_dataSent + call'.segmentsAcked * call'.segmentSize
                          ELSE m_dataSent
      ]_vars

DataSentZeroAckReached ==
    /\ call.op = "PktsAcked"
    /\ call.congState = "CA_OPEN"
    /\ call.segmentsAcked = 0
    /\ m_dataSent > 0

\* C10: a CongestionAvoidance step changes no field of the algorithm state
\* nor of the configuration, and with segmentsAcked = 0 it leaves tcb->m_cWnd
\* as it found it.
CongestionAvoidanceFrame ==
    [][ call'.op = "CongestionAvoidance" =>
            /\ algorithmState' = algorithmState
            /\ config' = config
            /\ call'.segmentsAcked = 0 => call'.ret = call'.cWnd
      ]_vars

CongestionAvoidanceNoAckReached ==
    /\ call.op = "CongestionAvoidance"
    /\ call.segmentsAcked = 0
    /\ call.ret = call.cWnd
    /\ m_alpha > One


\* floor (segmentSize^2 / w) as a double, computed without the square
SquareOver(segmentSize, w) ==
    LET q == (segmentSize * One) \div w
        r == (segmentSize * One) % w
    IN  segmentSize * q + (segmentSize * r) \div w

\* C11: with segmentsAcked > 0 and window > 0, CongestionAvoidance leaves
\* window + floor (max (1, (segmentSize^2 + window alpha) / window + alpha)),
\* which is at least window + 1; 10000, 1000 and alpha = 1 give 10102.
WindowGrowsByAdder ==
    (call.op = "CongestionAvoidance" /\ call.segmentsAcked > 0 /\ call.cWnd > 0) =>
        /\ call.ret = call.cWnd
              + Max(One, SquareOver(call.segmentSize, call.cWnd) + 2 * m_alpha) \div One
        /\ call.ret >= call.cWnd + 1
        /\ (call.cWnd = 10000 /\ call.segmentSize = 1000 /\ m_alpha = One)
              => call.ret = 10102

\* C12: Fork returns an object whose configuration and state fields all equal
\* the original's and leaves the original as it was; from equal objects the
\* same event at the same time leaves equal objects and equal thresholds; an
\* event given to one object alone leaves the other as it was.
ForkCopiesAndSeparates ==
    [][ /\ fork'.last = "Fork" /\ ~fork.made =>
            /\ fork'.obj = This
            /\ This' = This
        /\ (fork'.last = "both" /\ fork.made /\ fork.obj = This) =>
            /\ fork'.obj = This'
            /\ call'.op = "GetSsThresh" => fork'.ret = call'.ret
        /\ (fork'.last = "original" /\ fork.made) => fork'.obj = fork.obj
        /\ (fork'.last = "clone" /\ fork.made) => This' = This
      ]_vars

\* both objects, fed alike since the fork, have
\* gone through a congestion event after it and measure a throughput again
ForkInStepReached ==
    /\ fork.made
    /\ fork.last = "both"
    /\ fork.solo = 0
    /\ fork.obj = This
    /\ call.op = "PktsAcked"
    /\ m_throughput > 0
    /\ m_lastThroughput > 0
    /\ fork.ret > 0

\* C13: right after construction m_lastCon is the time of construction,
\* m_throughput and m_dataSent are 0 and m_minRtt, m_maxRtt hold
\* Time::Max (), Time::Min ().
EpochOpenAtConstruction ==
    call.op = "TcpShtcp" =>
        /\ m_lastCon = now
        /\ m_throughput = 0
        /\ m_dataSent = 0
        /\ m_minRtt = TimeMax
        /\ m_maxRtt = TimeMin


\* C14: when GetSsThresh returns, m_lastCon is the time of the call, m_delta
\* is 0 and, m_deltaL not being negative, m_alpha is max (1, 2 (1 - m_beta))
\* for the m_beta of that call.
SsThreshStepsInOrder ==
    call.op = "GetSsThresh" =>
        /\ m_lastCon = now
        /\ m_delta = 0
        /\ m_deltaL >= 0 => m_alpha = Max(One, 2 * (One - m_beta))

\* a congestion event after time 0 where the override set a beta below one
\* half, so that alpha is above 1
SsThreshStepsInOrderReached ==
    /\ call.op = "GetSsThresh"
    /\ m_lastCon > 0
    /\ m_beta # m_defaultBackoff
    /\ m_alpha > One
    /\ m_alpha = 2 * (One - m_beta)

\* TcpShtcp::TcpShtcp (void) at time 0 with the ThroughputRatio attribute set
\* to 1, so that a throughput below three times the last one is in range
InitWideRatio ==
    /\ m_alpha = 0
    /\ m_beta = 0
    /\ m_defaultBackoff = One \div 2
    /\ m_throughputRatio = One
    /\ m_delta = 0
    /\ m_deltaL \in DeltaLVals
    /\ m_lastCon = 0
    /\ m_minRtt = TimeMax
    /\ m_maxRtt = TimeMin
    /\ m_throughput = 0
    /\ m_lastThroughput = 0
    /\ m_dataSent = 0
    /\ now = 0
    /\ call = NoArgs("TcpShtcp")
    /\ samples = {}
    /\ fork = NoFork

SpecWideRatio == InitWideRatio /\ [][Next]_vars

\* the RTT ratios the override multiplies by
RttRatios == {(a * One) \div b : a \in RttVals, b \in RttVals}

\* C15: when the override fires in a GetSsThresh step, m_beta is computed
\* from the m_delta stored before the step.
OverrideUsesStoredDelta ==
    [][ (call'.op = "GetSsThresh"
            /\ OverrideFires(m_throughput, m_lastThroughput, m_throughputRatio)) =>
            m_beta' = OverrideBeta(m_delta, m_minRtt, m_maxRtt)
      ]_vars

\* the override has fired with a delta that was not 0: beta is no RTT ratio
OverrideUsesStoredDeltaReached ==
    /\ call.op = "GetSsThresh"
    /\ m_delta = 0
    /\ m_beta # m_defaultBackoff
    /\ m_beta \notin RttRatios

\* C16: a GetSsThresh step in an epoch without PktsAcked leaves m_beta =
\* m_defaultBackoff and m_lastThroughput = 0; one that finds m_lastThroughput
\* = 0 leaves m_beta = m_defaultBackoff; and m_beta differs from
\* m_defaultBackoff only when the epoch that ends and the one before it both
\* ended with a positive throughput.
QuietEpochKeepsDefault ==
    [][ call'.op = "GetSsThresh" =>
            /\ samples = {} => (m_beta' = m_defaultBackoff /\ m_lastThroughput' = 0)
            /\ m_lastThroughput = 0 => m_beta' = m_defaultBackoff
            /\ m_beta' # m_defaultBackoff => (m_throughput > 0 /\ m_lastThroughput > 0)
      ]_vars

\* a congestion event after time 0 that ended an epoch without PktsAcked
QuietEpochReached ==
    /\ call.op = "GetSsThresh"
    /\ m_lastCon > 0
    /\ samples = {}
    /\ m_lastThroughput = 0
    /\ m_throughput = 0
    /\ m_defaultBackoff > 0
    /\ m_beta = m_defaultBackoff

\* C17: PktsAcked and CongestionAvoidance steps leave m_lastCon, m_beta and
\* m_lastThroughput as they were, so only GetSsThresh changes them; GetSsThresh
\* leaves the configuration as it was.
OnlySsThreshMovesEpoch ==
    [][ /\ call'.op \in {"PktsAcked", "CongestionAvoidance"} =>
            << m_lastCon, m_beta, m_lastThroughput >>' = << m_lastCon, m_beta, m_lastThroughput >>
        /\ << m_lastCon, m_beta, m_lastThroughput >>' # << m_lastCon, m_beta, m_lastThroughput >>
            => call'.op = "GetSsThresh"
        /\ call'.op = "GetSsThresh" => config' = config
      ]_vars

\* an acknowledgment in an epoch that follows a measured one
OnlySsThreshMovesEpochReached ==
    /\ call.op = "PktsAcked"
    /\ m_lastCon > 0
    /\ m_lastCon < now
    /\ m_lastThroughput > 0
    /\ m_throughput > 0
    /\ m_beta > 0
    /\ m_beta = m_defaultBackoff

=============================================================================
